---- MODULE Spec2Model ----
(***************************************************************************)
(* The boot-time memory inventory of src/os/memory.rs:                     *)
(* store_usable_memory_regions (probe the firmware map size, check the     *)
(* static buffer, fetch the map, collect the CONVENTIONAL descriptors into *)
(* USABLE_REGIONS) and get_usable_memory_regions (the slice               *)
(* USABLE_REGIONS[..REGION_COUNT]).  The firmware is the environment: it   *)
(* owns the memory map, reports its own descriptor stride and may grow the *)
(* map between the size probe and the fetch.                               *)
(*                                                                         *)
(* src/os/process.rs declares the Process record, ProcessState and         *)
(* WaitTarget only: no function of the repository creates a Process or     *)
(* changes one, so it contributes no state or action here.                 *)
(***************************************************************************)
EXTENDS Integers, Sequences, FiniteSets, TLC

VARIABLES
    entry_size,      \* firmware: bytes per descriptor in its memory map
    fwMap,           \* firmware: the current memory map, a sequence of descriptors
    pc,              \* position of the caller/store_usable_memory_regions
    calls,           \* calls of store_usable_memory_regions started so far
    mem_map_size,    \* local mem_map_size.map_size (bytes), line 39
    memory_map,      \* local memory_map: the entries the last fetch returned
    idx,             \* position of the `for desc in memory_map.entries()` iterator
    USABLE_REGIONS,  \* static mut USABLE_REGIONS, indices 0..MAX_REGIONS-1
    REGION_COUNT,    \* static mut REGION_COUNT
    panic_msg,       \* message of the panic that stopped the program, "" if none
    result,          \* what the last finished call handed back to its caller
    pre_snapshot,    \* history: get_usable_memory_regions() when the call began
    grown            \* history: descriptors the map gained since the size probe

vars == <<entry_size, fwMap, pc, calls, mem_map_size, memory_map, idx,
          USABLE_REGIONS, REGION_COUNT, panic_msg, result, pre_snapshot, grown>>

----------------------------------------------------------------------------
(* Program constants *)

MAX_REGIONS == 32

MAP_SIZE == 16384

PAGE_SIZE == 4096

HEADROOM_DESCS == 8

\* core::mem::size_of::<uefi::table::boot::MemoryDescriptor>(): u32 type (padded
\* to 8), phys_start, virt_start, page_count, attribute.
DESC_SIZE == 40

(* Bounds of the model *)

MaxCalls == 2

MaxShortLen == 1

MaxGrow == 9

----------------------------------------------------------------------------
(* The firmware memory source *)

\* The stride the firmware reports in MemoryMapSize.entry_size.  UEFI allows it
\* to exceed the size of the descriptor structure; EDK II firmware reports 48.
EntrySizes == {DESC_SIZE, DESC_SIZE + 8}

Descriptor(ty, start, pages) == [ty |-> ty, phys_start |-> start, page_count |-> pages]

\* The descriptors short maps are built from.
ShortDescs ==
    { Descriptor("CONVENTIONAL", 4096, 2),
      Descriptor("RESERVED", 12288, 5),
      Descriptor("CONVENTIONAL", 65536, 16) }

\* The i-th descriptor of a long map: every third one is not usable, all have
\* distinct addresses.
Filler(i) ==
    Descriptor(IF i % 3 = 0 THEN "RESERVED" ELSE "CONVENTIONAL",
               1048576 + i * 65536,
               1 + (i % 4))

FillMap(n) == [i \in 1..n |-> Filler(i)]

\* The largest descriptor count whose probed size passes the buffer check.
BufferLimit(es) == (MAP_SIZE - HEADROOM_DESCS * DESC_SIZE) \div es

ShortMaps == UNION { [1..n -> ShortDescs] : n \in 0..MaxShortLen }

\* Long maps: around the capacity of the region table (32, 33 and 40
\* usable descriptors) and around the largest map the buffer check accepts.
FillLens(es) ==
    {47, 49, 60} \cup {BufferLimit(es) - 1, BufferLimit(es), BufferLimit(es) + 1}

\* The maps a firmware with descriptor stride es may hold when a call begins.
MapsByStride ==
    [es \in EntrySizes |->
        ShortMaps
        \cup { << Descriptor("CONVENTIONAL", 4096, 2),
                  Descriptor("RESERVED", 12288, 5),
                  Descriptor("CONVENTIONAL", 65536, 16) >> }
        \cup { FillMap(n) : n \in FillLens(es) }]

FirmwareMaps(es) == MapsByStride[es]

\* By how many descriptors the map may grow between the size probe and the fetch.
GrowSteps == 1..MaxGrow

\* What the map gains when firmware code allocates memory between two calls of
\* the boot services: boot-services descriptors for the allocated pages and,
\* second, the free remainder of the range the first allocation split.
Allocated(base, g) ==
    [i \in 1..g |->
        Descriptor(IF i = 2 THEN "CONVENTIONAL" ELSE "BOOT_SERVICES_DATA",
                   1048576 + (base + i) * 65536 + 4096,
                   IF i = 2 THEN 3 ELSE 1)]

----------------------------------------------------------------------------
(* memory.rs *)

MemoryRegion(start, size) == [start |-> start, size |-> size]

\* buffer.len()
BufferLen == MAP_SIZE

\* needed = map_size + 8 * size_of::<MemoryDescriptor>()
Needed(map_size) == map_size + HEADROOM_DESCS * DESC_SIZE

\* Mutant of Usable: every descriptor that is not RESERVED counts as usable.
Usable_NotReserved(desc) == desc.ty # "RESERVED"

\* desc.ty == MemoryType::CONVENTIONAL
Usable(desc) == desc.ty = "CONVENTIONAL"

\* Mutant of Region: the page count is stored as the size.
Region_NoPageSize(desc) == MemoryRegion(desc.phys_start, desc.page_count)

\* MemoryRegion { start: desc.phys_start, size: desc.page_count * 4096 }.
\* Firmware descriptors lie inside the 64-bit physical address space
\* (page_count < 2^52), so the u64 product does not wrap.
Region(desc) == MemoryRegion(desc.phys_start, desc.page_count * PAGE_SIZE)

\* Mutant of HasSpace: the capacity test is off by one.
HasSpace_OffByOne == REGION_COUNT <= MAX_REGIONS

\* REGION_COUNT < MAX_REGIONS
HasSpace == REGION_COUNT < MAX_REGIONS

\* &USABLE_REGIONS[..REGION_COUNT]
get_usable_memory_regions == [i \in 1..REGION_COUNT |-> USABLE_REGIONS[i - 1]]

\* The else branch of the capacity test only breaks: neither the unit result
\* nor the two statics record that descriptors were left out.
truncated == FALSE

AssertMsg == "UEFI memory map buffer too small"

ExpectMsg == "Failed to retrieve UEFI memory map"

\* Mutant of InitInventory: the count starts at the capacity.
InitInventory_Full ==
    /\ USABLE_REGIONS = [i \in 0..(MAX_REGIONS - 1) |-> MemoryRegion(0, 0)]
    /\ REGION_COUNT = MAX_REGIONS

\* static mut USABLE_REGIONS = [MemoryRegion { start: 0, size: 0 }; MAX_REGIONS];
\* static mut REGION_COUNT = 0;
InitInventory ==
    /\ USABLE_REGIONS = [i \in 0..(MAX_REGIONS - 1) |-> MemoryRegion(0, 0)]
    /\ REGION_COUNT = 0

Init ==
    /\ entry_size \in EntrySizes
    /\ fwMap \in FirmwareMaps(entry_size)
    /\ pc = "idle"
    /\ calls = 0
    /\ mem_map_size = 0
    /\ memory_map = << >>
    /\ idx = 0
    /\ InitInventory
    /\ panic_msg = ""
    /\ result = "none"
    /\ pre_snapshot = << >>
    /\ grown = 0

\* Between two calls the firmware map may take any shape.
FirmwareRemaps(m) ==
    /\ pc = "returned"
    /\ calls < MaxCalls
    /\ fwMap' = m
    /\ pc' = "idle"
    /\ UNCHANGED <<entry_size, calls, mem_map_size, memory_map, idx,
                   USABLE_REGIONS, REGION_COUNT, panic_msg, result, pre_snapshot, grown>>

\* Other firmware activity between the size probe and the fetch adds descriptors.
FirmwareGrows(g) ==
    /\ pc = "checked"
    /\ grown = 0
    /\ fwMap' = fwMap \o Allocated(Len(fwMap), g)
    /\ grown' = g
    /\ UNCHANGED <<entry_size, pc, calls, mem_map_size, memory_map, idx,
                   USABLE_REGIONS, REGION_COUNT, panic_msg, result, pre_snapshot>>

\* let mem_map_size = bt.memory_map_size();
Probe ==
    /\ pc = "idle"
    /\ calls < MaxCalls
    /\ calls' = calls + 1
    /\ mem_map_size' = Len(fwMap) * entry_size
    /\ pre_snapshot' = get_usable_memory_regions
    /\ grown' = 0
    /\ result' = "none"
    /\ memory_map' = << >>
    /\ pc' = "probed"
    /\ UNCHANGED <<entry_size, fwMap, idx, USABLE_REGIONS, REGION_COUNT, panic_msg>>

\* assert!(buffer.len() >= needed, ...) passes
AssertPasses ==
    /\ pc = "probed"
    /\ BufferLen >= Needed(mem_map_size)
    /\ pc' = "checked"
    /\ UNCHANGED <<entry_size, fwMap, calls, mem_map_size, memory_map, idx,
                   USABLE_REGIONS, REGION_COUNT, panic_msg, result, pre_snapshot, grown>>

\* Mutant of AssertPanics: the count is reset before the buffer is checked.
AssertPanics_AfterReset ==
    /\ pc = "probed"
    /\ ~(BufferLen >= Needed(mem_map_size))
    /\ pc' = "panicked"
    /\ panic_msg' = AssertMsg
    /\ REGION_COUNT' = 0
    /\ UNCHANGED <<entry_size, fwMap, calls, mem_map_size, memory_map, idx,
                   USABLE_REGIONS, result, pre_snapshot, grown>>

\* assert!(buffer.len() >= needed, ...) panics
AssertPanics ==
    /\ pc = "probed"
    /\ ~(BufferLen >= Needed(mem_map_size))
    /\ pc' = "panicked"
    /\ panic_msg' = AssertMsg
    /\ UNCHANGED <<entry_size, fwMap, calls, mem_map_size, memory_map, idx,
                   USABLE_REGIONS, REGION_COUNT, result, pre_snapshot, grown>>

\* The firmware fills the buffer when the current map fits in it.
FirmwareFits == Len(fwMap) * entry_size <= BufferLen

\* bt.memory_map(buffer) returns Ok
FetchOk ==
    /\ pc = "checked"
    /\ FirmwareFits
    /\ memory_map' = fwMap
    /\ pc' = "fetched"
    /\ UNCHANGED <<entry_size, fwMap, calls, mem_map_size, idx,
                   USABLE_REGIONS, REGION_COUNT, panic_msg, result, pre_snapshot, grown>>

\* bt.memory_map(buffer) returns Err (BUFFER_TOO_SMALL); .expect panics
FetchPanics ==
    /\ pc = "checked"
    /\ ~FirmwareFits
    /\ pc' = "panicked"
    /\ panic_msg' = ExpectMsg
    /\ UNCHANGED <<entry_size, fwMap, calls, mem_map_size, memory_map, idx,
                   USABLE_REGIONS, REGION_COUNT, result, pre_snapshot, grown>>

\* Mutant of ResetCount: the count of the earlier pass is kept.
ResetCount_NoReset ==
    /\ pc = "fetched"
    /\ idx' = 1
    /\ pc' = "loop"
    /\ UNCHANGED <<entry_size, fwMap, calls, mem_map_size, memory_map, REGION_COUNT,
                   USABLE_REGIONS, panic_msg, result, pre_snapshot, grown>>

\* REGION_COUNT = 0; the iterator starts at the first entry
ResetCount ==
    /\ pc = "fetched"
    /\ REGION_COUNT' = 0
    /\ idx' = 1
    /\ pc' = "loop"
    /\ UNCHANGED <<entry_size, fwMap, calls, mem_map_size, memory_map,
                   USABLE_REGIONS, panic_msg, result, pre_snapshot, grown>>

\* The function returns () to its caller.
Return ==
    /\ pc' = "returned"
    /\ idx' = 0
    /\ result' = "unit"
    /\ pre_snapshot' = << >>
    /\ grown' = 0

\* a CONVENTIONAL descriptor while the table has room
StoreRegion ==
    /\ pc = "loop"
    /\ idx <= Len(memory_map)
    /\ Usable(memory_map[idx])
    /\ HasSpace
    /\ USABLE_REGIONS' = [USABLE_REGIONS EXCEPT ![REGION_COUNT] = Region(memory_map[idx])]
    /\ REGION_COUNT' = REGION_COUNT + 1
    /\ idx' = idx + 1
    /\ UNCHANGED <<entry_size, fwMap, pc, calls, mem_map_size, memory_map,
                   panic_msg, result, pre_snapshot, grown>>

\* a descriptor of any other type
SkipDescriptor ==
    /\ pc = "loop"
    /\ idx <= Len(memory_map)
    /\ ~Usable(memory_map[idx])
    /\ idx' = idx + 1
    /\ UNCHANGED <<entry_size, fwMap, pc, calls, mem_map_size, memory_map,
                   USABLE_REGIONS, REGION_COUNT, panic_msg, result, pre_snapshot, grown>>

\* a CONVENTIONAL descriptor while the table is full: break, then return
BreakOnFull ==
    /\ pc = "loop"
    /\ idx <= Len(memory_map)
    /\ Usable(memory_map[idx])
    /\ ~HasSpace
    /\ Return
    /\ UNCHANGED <<entry_size, fwMap, calls, mem_map_size, memory_map,
                   USABLE_REGIONS, REGION_COUNT, panic_msg>>

\* the iterator is exhausted: return
LoopEnds ==
    /\ pc = "loop"
    /\ idx > Len(memory_map)
    /\ Return
    /\ UNCHANGED <<entry_size, fwMap, calls, mem_map_size, memory_map,
                   USABLE_REGIONS, REGION_COUNT, panic_msg>>

Next ==
    \/ \E m \in FirmwareMaps(entry_size) : FirmwareRemaps(m)
    \/ \E g \in GrowSteps : FirmwareGrows(g)
    \/ Probe
    \/ AssertPasses
    \/ AssertPanics
    \/ FetchOk
    \/ FetchPanics
    \/ ResetCount
    \/ StoreRegion
    \/ SkipDescriptor
    \/ BreakOnFull
    \/ LoopEnds

Spec == Init /\ [][Next]_vars

----------------------------------------------------------------------------
(* Properties.  What a pass is expected to store is stated here on its own,  *)
(* without the operators of the memory.rs section.                          *)

IsConventional(d) == d.ty = "CONVENTIONAL"

Min(a, b) == IF a <= b THEN a ELSE b

UsableCount(D) == Len(SelectSeq(D, IsConventional))

\* take(filter(D, is_usable), capacity), each descriptor as {start, pages * 4096}
Expected(D) ==
    LET u == SelectSeq(D, IsConventional)
    IN  [i \in 1..Min(Len(u), 32) |->
            [start |-> u[i].phys_start, size |-> u[i].page_count * 4096]]

Scenario ==
    << [ty |-> "CONVENTIONAL", phys_start |-> 4096, page_count |-> 2],
       [ty |-> "RESERVED", phys_start |-> 12288, page_count |-> 5],
       [ty |-> "CONVENTIONAL", phys_start |-> 65536, page_count |-> 16] >>

\* The last call has returned and no later one has begun to fetch.
Succeeded == calls >= 1 /\ pc \in {"returned", "idle"}

\* C1: after a call that returned, whatever passes came before, the snapshot
\* is the first 32 CONVENTIONAL descriptors of the fetched map, in its order,
\* each as {phys_start, page_count * 4096}; for the map of the scenario it is
\* [{0x1000, 8192}, {0x10000, 65536}].
C1_SnapshotIsUsablePrefix ==
    Succeeded =>
        /\ get_usable_memory_regions = Expected(memory_map)
        /\ memory_map = Scenario =>
               get_usable_memory_regions =
                   << [start |-> 4096, size |-> 8192], [start |-> 65536, size |-> 65536] >>

\* A second pass has returned with fewer regions than the table still holds
\* from the first: the entry just past the count is a leftover.
C1_Witness ==
    /\ pc = "returned"
    /\ calls = 2
    /\ REGION_COUNT \in 1..(MAX_REGIONS - 1)
    /\ USABLE_REGIONS[REGION_COUNT].size # 0
    /\ \E i \in 1..Len(memory_map) : memory_map[i].ty # "CONVENTIONAL"

\* C2 as stated: a failed call hands its caller a BufferTooSmall or FetchFailed
\* result and leaves the snapshot as it was.
C2_Original ==
    pc = "panicked" =>
        /\ result \in {"BufferTooSmall", "FetchFailed"}
        /\ get_usable_memory_regions = pre_snapshot

\* C2 as amended: a call fails by panicking, with the assert's message exactly
\* when the buffer is shorter than the probed size plus 8 * 40 bytes and with
\* the expect's message when the fetch failed; nothing is handed back, no step
\* of the program follows, and the snapshot (regions and count) is the
\* pre-call one.
C2_PanicKeepsSnapshot ==
    pc = "panicked" =>
        /\ result = "none"
        /\ panic_msg \in {AssertMsg, ExpectMsg}
        /\ (panic_msg = AssertMsg) <=> (16384 < mem_map_size + 8 * 40)
        /\ panic_msg = ExpectMsg => Len(fwMap) * entry_size > 16384
        /\ ~ENABLED Next
        /\ get_usable_memory_regions = pre_snapshot
        /\ REGION_COUNT = Len(pre_snapshot)

\* The buffer check failed in a call that followed a pass which stored regions.
C2_Witness ==
    /\ pc = "panicked"
    /\ panic_msg = AssertMsg
    /\ calls = 2
    /\ Len(pre_snapshot) > 0

\* C3 as stated: after a call that returned, the truncation flag is set exactly
\* when the map holds more than 32 usable descriptors, and the snapshot holds
\* min(usable, 32) regions.
C3_Original ==
    pc = "returned" =>
        /\ truncated <=> (UsableCount(memory_map) > 32)
        /\ Len(get_usable_memory_regions) = Min(UsableCount(memory_map), 32)

\* C3 as amended: after a call that returned the snapshot holds
\* min(usable, 32) regions, and the call hands back the unit value with no
\* truncation flag, also when usable descriptors were left out.
C3_SilentTruncation ==
    pc = "returned" =>
        /\ Len(get_usable_memory_regions) = Min(UsableCount(memory_map), 32)
        /\ result = "unit"
        /\ ~truncated

\* A pass over a map with 40 usable descriptors has returned with 32 regions.
C3_Witness ==
    /\ pc = "returned"
    /\ UsableCount(memory_map) = 40
    /\ REGION_COUNT = 32

\* C4: before any call, and in the first call up to the reset of the count
\* (also when that call panics), the snapshot is empty.
C4_EmptyBeforeFirstPass ==
    (calls = 0 \/ (calls = 1 /\ pc \in {"probed", "checked", "fetched", "panicked"})) =>
        /\ get_usable_memory_regions = << >>
        /\ REGION_COUNT = 0

\* The first call has fetched a map with usable descriptors and not stored yet.
C4_Witness ==
    /\ calls = 1
    /\ pc = "fetched"
    /\ UsableCount(memory_map) > 0
    /\ get_usable_memory_regions = << >>

\* C8: in every state, inside the collection loop too, REGION_COUNT is at most
\* MAX_REGIONS, the table has indices 0..MAX_REGIONS-1, and the store of the
\* loop writes at an index of the table.
C8_CountWithinCapacity ==
    /\ REGION_COUNT \in 0..32
    /\ DOMAIN USABLE_REGIONS = 0..31
    /\ (pc = "loop" /\ idx <= Len(memory_map) /\ Usable(memory_map[idx]) /\ HasSpace) =>
           REGION_COUNT \in DOMAIN USABLE_REGIONS

\* The loop of a second pass stands at a usable descriptor with the table full.
C8_Witness ==
    /\ pc = "loop"
    /\ calls = 2
    /\ REGION_COUNT = 32
    /\ idx <= Len(memory_map)
    /\ memory_map[idx].ty = "CONVENTIONAL"

InCall == pc \in {"probed", "checked", "fetched", "loop"}

\* C9 as stated: at every point of a call the snapshot is the whole pre-call
\* snapshot or the whole new one.
C9_Original ==
    InCall =>
        \/ get_usable_memory_regions = pre_snapshot
        \/ pc \in {"fetched", "loop"} /\ get_usable_memory_regions = Expected(memory_map)

\* C9 as amended: up to the reset of the count the snapshot is the pre-call
\* one; from the reset on it is what the descriptors iterated so far give -
\* empty at first, then one region more per store - and it is the whole new
\* snapshot only when the call returns.
C9_PiecewiseReplacement ==
    /\ pc \in {"probed", "checked", "fetched"} => get_usable_memory_regions = pre_snapshot
    /\ pc = "loop" => get_usable_memory_regions = Expected(SubSeq(memory_map, 1, idx - 1))
    /\ pc = "returned" => get_usable_memory_regions = Expected(memory_map)

\* Inside the loop of a pass that follows a non-empty snapshot, the view is
\* neither the old snapshot nor the new one.
C9_Witness ==
    /\ pc = "loop"
    /\ Len(pre_snapshot) > 0
    /\ REGION_COUNT > 0
    /\ get_usable_memory_regions # pre_snapshot
    /\ get_usable_memory_regions # Expected(memory_map)

\* C10: when the buffer check passed and the map then grew by at most 8
\* descriptors, the fetch does not fail.
C10_HeadroomTolerance ==
    (pc = "panicked" /\ panic_msg = ExpectMsg) => grown > 8

====
